---- MODULE Spec2Model ----
(***************************************************************************)
(* Model of app.py (CineMatch): the dataset loader load_movie_data, the    *)
(* recommendation resolver get_recommendations, both behind Streamlit's    *)
(* st.cache_data memoisation, and the control flow of main.                *)
(*                                                                         *)
(* A movie table (a pandas DataFrame with the default RangeIndex) is       *)
(* modelled by its 'title' column: a sequence of titles; position k of the *)
(* sequence is the pandas row k-1.  The other columns are payload that the *)
(* resolver only copies, so a result DataFrame is modelled by the sequence *)
(* of row positions it holds.  A similarity matrix is a sequence of rows   *)
(* of integer scores (only the order of scores matters to the resolver).   *)
(* Python's None is the record with isNone = TRUE.                         *)
(***************************************************************************)
EXTENDS Integers, Sequences, FiniteSets, TLC

VARIABLES
    file,        \* contents of 'movie_data.pkl' on disk
    loadCache,   \* st.cache_data store of load_movie_data
    recCache,    \* st.cache_data store of get_recommendations
    pc,          \* position of the current run of main
    movies,      \* movie table held by the caller (None or a table)
    cosine_sim,  \* similarity matrix held by the caller (None or a matrix)
    data_loaded, \* third component returned by load_movie_data
    loadMsg,     \* st.error emitted by load_movie_data ("none" if silent)
    selected,    \* title passed to the last get_recommendations call
    recs,        \* rows returned by the last get_recommendations call
    signal,      \* st.error emitted by the last get_recommendations call
    invoked      \* get_recommendations has been called in this run

vars == <<file, loadCache, recCache, pc, movies, cosine_sim, data_loaded,
          loadMsg, selected, recs, signal, invoked>>

----------------------------------------------------------------------------
(* Bounds of the explored inputs *)

MaxN == 3

MaxScore == 1

BigN == 12

(* sim_scores[1:11] keeps at most ten entries *)
TopK == 10

----------------------------------------------------------------------------
(* Values *)

None == [isNone |-> TRUE, title |-> <<>>]

NoneMatrix == [isNone |-> TRUE, rows |-> <<>>]

DataFrame(titles) == [isNone |-> FALSE, title |-> titles]

Matrix(rows) == [isNone |-> FALSE, rows |-> rows]

Min(S) == CHOOSE x \in S : \A y \in S : x <= y

Minimum(a, b) == IF a <= b THEN a ELSE b

TitleSet == {"Alpha", "Beta"}

QueryTitles == TitleSet \cup {"Nonexistent Film"}

NoSearchHit == "No movies found matching your search"

----------------------------------------------------------------------------
(* load_movie_data: the body behind the cache, as a function of the file *)

(* What open() and pickle.load() make of the file: FileNotFoundError, any  *)
(* other exception (unreadable, not a pickle, not a pair), or the pair     *)
FileKinds == {"missing", "unreadable", "undeserializable", "not_two_objects", "bundle"}

Failed(msg) == [movies |-> None, cosine_sim |-> NoneMatrix, ok |-> FALSE, msg |-> msg]

load_movie_data_NoFileNotFound(f) ==
    IF f.kind # "bundle"
    THEN Failed("error_loading")
    ELSE IF ~f.movies.isNone /\ Len(f.movies.title) > 0
         THEN [movies |-> f.movies, cosine_sim |-> f.cosine_sim, ok |-> TRUE, msg |-> "none"]
         ELSE Failed("empty_or_corrupted")

load_movie_data(f) ==
    IF f.kind = "missing"
    THEN Failed("file_not_found")
    ELSE IF f.kind # "bundle"
         THEN Failed("error_loading")
         ELSE IF ~f.movies.isNone /\ Len(f.movies.title) > 0
              THEN [movies |-> f.movies, cosine_sim |-> f.cosine_sim, ok |-> TRUE, msg |-> "none"]
              ELSE Failed("empty_or_corrupted")

----------------------------------------------------------------------------
(* get_recommendations: the body behind the cache, as a function of its    *)
(* three arguments                                                         *)

(* movies[movies['title'] == title].index : positions of the exact matches *)
matching_movies(title, m) == {i \in 1..Len(m.title) : m.title[i] = title}

LastIndex(matching) == CHOOSE x \in matching : \A y \in matching : y <= x

(* matching_movies.index[0] *)
FirstIndex(matching) == Min(matching)

(* list(enumerate(row)) : pairs <<column, score>> in column order *)
enumerate(row) == [j \in 1..Len(row) |-> <<j, row[j]>>]

(* one step of the stable descending sort: e goes behind every entry whose *)
(* score is not smaller than its own                                       *)
InsertByScore(t, e) ==
    LET k == Cardinality({i \in 1..Len(t) : t[i][2] >= e[2]})
    IN  SubSeq(t, 1, k) \o <<e>> \o SubSeq(t, k + 1, Len(t))

InsertBeforeEqual(t, e) ==
    LET k == Cardinality({i \in 1..Len(t) : t[i][2] > e[2]})
    IN  SubSeq(t, 1, k) \o <<e>> \o SubSeq(t, k + 1, Len(t))

RECURSIVE sorted_unstable(_)
sorted_unstable(s) ==
    IF s = <<>> THEN <<>>
    ELSE InsertBeforeEqual(sorted_unstable(SubSeq(s, 1, Len(s) - 1)), s[Len(s)])

(* sorted(sim_scores, key=lambda x: x[1], reverse=True) *)
RECURSIVE sorted(_)
sorted(s) ==
    IF s = <<>> THEN <<>>
    ELSE InsertByScore(sorted(SubSeq(s, 1, Len(s) - 1)), s[Len(s)])

TopSliceFromZero(s) == SubSeq(s, 1, Minimum(Len(s), TopK))

(* sim_scores[1:11] : drop the first entry, keep the next ten *)
TopSlice(s) == SubSeq(s, 2, Minimum(Len(s), TopK + 1))

Returned(r, sig) == [recs |-> r, signal |-> sig]

get_recommendations_body(title, m, sim) ==
    IF m.isNone \/ Len(m.title) = 0
    THEN Returned(<<>>, "no_data")
    ELSE IF matching_movies(title, m) = {}
    THEN Returned(<<>>, "not_found")
    ELSE LET idx == FirstIndex(matching_movies(title, m))
         IN  IF sim.isNone \/ idx > Len(sim.rows)
             THEN Returned(<<>>, "error")    \* TypeError / IndexError at cosine_sim[idx]
             ELSE LET sim_scores == TopSlice(sorted(enumerate(sim.rows[idx])))
                      movie_indices == [k \in 1..Len(sim_scores) |-> sim_scores[k][1]]
                  IN  IF \E k \in 1..Len(movie_indices) : movie_indices[k] > Len(m.title)
                      THEN Returned(<<>>, "error")    \* IndexError at .iloc
                      ELSE Returned(movie_indices, "none")

----------------------------------------------------------------------------
(* st.cache_data: a call with arguments seen before returns the stored     *)
(* result and replays the stored st.error; otherwise the body runs and its *)
(* outcome is stored under the hash of the arguments                       *)

CacheKey(title, m, sim) == [title |-> title, movies |-> m, cosine_sim |-> sim]

cache_lookup_AnyTitle(cache, key) ==
    {e \in cache : e.key.movies = key.movies /\ e.key.cosine_sim = key.cosine_sim}

cache_lookup(cache, key) == {e \in cache : e.key = key}

cached_get_recommendations(cache, title, m, sim) ==
    LET hits == cache_lookup(cache, CacheKey(title, m, sim))
    IN  IF hits # {}
        THEN (CHOOSE e \in hits : TRUE).value
        ELSE get_recommendations_body(title, m, sim)

(* One call get_recommendations(title, movies, cosine_sim) by the holder   *)
(* of movies and cosine_sim                                                *)
get_recommendations(title) ==
    LET out == cached_get_recommendations(recCache, title, movies, cosine_sim)
    IN  /\ recs' = out.recs
        /\ signal' = out.signal
        /\ selected' = title
        /\ invoked' = TRUE
        /\ recCache' = recCache \cup
               {[key |-> CacheKey(title, movies, cosine_sim), value |-> out]}
        /\ UNCHANGED <<movies, cosine_sim>>

----------------------------------------------------------------------------
(* Explored datasets *)

Near(n) == {k \in (n - 1)..(n + 1) : k >= 0}

Rows(len) == [1..len -> 0..MaxScore]

(* the R x Len(r) matrix whose row i is r rotated so that r[1] sits in     *)
(* column i: every pair (row index, row content) occurs for some r         *)
Circulant(R, r) ==
    [i \in 1..R |-> [j \in 1..Len(r) |-> r[((j - i) % Len(r)) + 1]]]

SmallTables == UNION {[1..n -> TitleSet] : n \in 0..MaxN}

MatricesNear(n) ==
    {NoneMatrix} \cup
    {Matrix(Circulant(R, r)) : R \in Near(n), r \in UNION {Rows(len) : len \in Near(n)}}

SmallBundles ==
    UNION {{[movies |-> DataFrame(t), cosine_sim |-> s] : s \in MatricesNear(Len(t))}
           : t \in SmallTables}

NullTableBundles ==
    {[movies |-> None, cosine_sim |-> s] : s \in {NoneMatrix, Matrix(<<<<1>>>>)}}

(* the example of the specification, section 8; scores in tenths *)
ExampleTable == DataFrame(<<"Alpha", "Beta", "Gamma", "Delta">>)

ExampleRow == <<10, 9, 2, 5>>

ExampleBundle == [movies |-> ExampleTable, cosine_sim |-> Matrix(Circulant(4, ExampleRow))]

(* catalogues larger than the ten-entry slice *)
BigSizes == (TopK + 1)..BigN

BigRow(len, a, b, m) == [j \in 1..len |-> (a * j + b) % m]

BigTables(n) ==
    {DataFrame([i \in 1..n |-> IF i = p THEN "Alpha" ELSE "Beta"]) : p \in {1, 2, n}}

BigMatrices(n) ==
    {Matrix(Circulant(n, BigRow(len, a, b, m))) :
        len \in Near(n), a \in {1, 5}, b \in {0, 2}, m \in {3, 13}}

BigBundles ==
    UNION {{[movies |-> t, cosine_sim |-> s] : t \in BigTables(n), s \in BigMatrices(n)}
           : n \in BigSizes}

Bundles == SmallBundles \cup NullTableBundles \cup {ExampleBundle} \cup BigBundles

Files ==
    {[kind |-> k, movies |-> None, cosine_sim |-> NoneMatrix] : k \in FileKinds \ {"bundle"}}
    \cup {[kind |-> "bundle", movies |-> b.movies, cosine_sim |-> b.cosine_sim] : b \in Bundles}

----------------------------------------------------------------------------
(* main: one run of the script per user interaction *)

EmptyLoadCache == [filled |-> FALSE, value |-> Failed("none")]

Init ==
    /\ file \in Files
    /\ loadCache = EmptyLoadCache
    /\ recCache = {}
    /\ pc = "start"
    /\ movies = None
    /\ cosine_sim = NoneMatrix
    /\ data_loaded = FALSE
    /\ loadMsg = "none"
    /\ selected = ""
    /\ recs = <<>>
    /\ signal = "none"
    /\ invoked = FALSE

(* movies, cosine_sim, data_loaded = load_movie_data() *)
MainLoad ==
    /\ pc = "start"
    /\ LET out == IF loadCache.filled THEN loadCache.value ELSE load_movie_data(file)
       IN  /\ movies' = out.movies
           /\ cosine_sim' = out.cosine_sim
           /\ data_loaded' = out.ok
           /\ loadMsg' = out.msg
           /\ loadCache' = [filled |-> TRUE, value |-> out]
    /\ pc' = "loaded"
    /\ UNCHANGED <<file, recCache, selected, recs, signal, invoked>>

LoadFailed == ~data_loaded \/ movies.isNone

(* if not data_loaded or movies is None: ... return *)
MainHalt ==
    /\ pc = "loaded"
    /\ LoadFailed
    /\ pc' = "halted"
    /\ UNCHANGED <<file, loadCache, recCache, movies, cosine_sim, data_loaded,
                   loadMsg, selected, recs, signal, invoked>>

SearchTerms == {"", "a", "al", "zz"}

(* title.str.contains(term, case=False) on the titles of the explored tables *)
str_contains(title, term) ==
    CASE term = "a" -> TRUE
      [] term = "al" -> title = "Alpha"
      [] OTHER -> FALSE

movie_options(m, search_term) ==
    LET all == {m.title[i] : i \in 1..Len(m.title)}
        filtered == {t \in all : str_contains(t, search_term)}
    IN  IF search_term # ""
        THEN IF filtered # {} THEN filtered ELSE {NoSearchHit}
        ELSE all

MainRecommend_Unguarded(search_term, selected_movie) ==
    /\ pc = "loaded"
    /\ selected_movie \in QueryTitles
    /\ get_recommendations(selected_movie)
    /\ pc' = "done"
    /\ UNCHANGED <<file, loadCache, data_loaded, loadMsg>>

(* the button was pressed on a title of the select box *)
MainRecommend(search_term, selected_movie) ==
    /\ pc = "loaded"
    /\ ~LoadFailed
    /\ selected_movie \in movie_options(movies, search_term)
    /\ selected_movie # NoSearchHit
    /\ get_recommendations(selected_movie)
    /\ pc' = "done"
    /\ UNCHANGED <<file, loadCache, data_loaded, loadMsg>>

(* the button was not pressed, or the search matched no title *)
MainNoRecommend(search_term, selected_movie, get_recs) ==
    /\ pc = "loaded"
    /\ ~LoadFailed
    /\ selected_movie \in movie_options(movies, search_term)
    /\ ~(get_recs /\ selected_movie # NoSearchHit)
    /\ pc' = "done"
    /\ UNCHANGED <<file, loadCache, recCache, movies, cosine_sim, data_loaded,
                   loadMsg, selected, recs, signal, invoked>>

(* Streamlit runs the script again; the caches outlive the run *)
Rerun ==
    /\ pc \in {"done", "halted"}
    /\ pc' = "start"
    /\ movies' = None
    /\ cosine_sim' = NoneMatrix
    /\ data_loaded' = FALSE
    /\ loadMsg' = "none"
    /\ selected' = ""
    /\ recs' = <<>>
    /\ signal' = "none"
    /\ invoked' = FALSE
    /\ UNCHANGED <<file, loadCache, recCache>>

Next ==
    \/ MainLoad
    \/ MainHalt
    \/ \E search_term \in SearchTerms, selected_movie \in QueryTitles \cup {"Gamma", "Delta", NoSearchHit} :
           MainRecommend(search_term, selected_movie)
    \/ \E search_term \in SearchTerms, selected_movie \in QueryTitles \cup {"Gamma", "Delta", NoSearchHit},
          get_recs \in BOOLEAN :
           MainNoRecommend(search_term, selected_movie, get_recs)
    \/ Rerun

Spec == Init /\ [][Next]_vars

----------------------------------------------------------------------------
(* get_recommendations called directly with any table, matrix and title *)

InitCall ==
    /\ file = [kind |-> "missing", movies |-> None, cosine_sim |-> NoneMatrix]
    /\ loadCache = EmptyLoadCache
    /\ recCache = {}
    /\ pc = "call"
    /\ \E b \in Bundles : movies = b.movies /\ cosine_sim = b.cosine_sim
    /\ data_loaded = FALSE
    /\ loadMsg = "none"
    /\ selected = ""
    /\ recs = <<>>
    /\ signal = "none"
    /\ invoked = FALSE

Call(title) ==
    /\ pc = "call"
    /\ get_recommendations(title)
    /\ UNCHANGED <<file, loadCache, pc, data_loaded, loadMsg>>

NextCall == \E title \in QueryTitles : Call(title)

SpecCall == InitCall /\ [][NextCall]_vars

----------------------------------------------------------------------------
(* Vocabulary of the properties *)

N == Len(movies.title)

(* the table has N rows and the matrix is N x N *)
CoIndexed ==
    /\ ~movies.isNone
    /\ ~cosine_sim.isNone
    /\ Len(cosine_sim.rows) = N
    /\ \A i \in 1..N : Len(cosine_sim.rows[i]) = N

Matches == {i \in 1..N : movies.title[i] = selected}

(* the last call was for a title that some row of the table carries *)
CalledPresent == invoked /\ ~movies.isNone /\ Matches # {}

LowestMatch == CHOOSE i \in Matches : \A j \in Matches : i <= j

(* how many columns precede column j in descending score order, column     *)
(* order among equal scores, plus one                                      *)
RankIn(row, j) ==
    1 + Cardinality({k \in 1..Len(row) : row[k] > row[j] \/ (row[k] = row[j] /\ k < j)})

----------------------------------------------------------------------------
(* C1: for a co-indexed dataset and a title present in the table, the      *)
(* result never contains the row index the title resolved to, also when    *)
(* another column of that similarity row scores as high or higher.         *)
C1_SelfExcluded ==
    (CalledPresent /\ CoIndexed) =>
        \A k \in 1..Len(recs) : recs[k] # LowestMatch

(* C2: for a co-indexed dataset with N >= 1 movies and a title present in  *)
(* the table, get_recommendations returns exactly min(10, N-1) rows.       *)
C2_Cardinality ==
    (CalledPresent /\ CoIndexed) =>
        /\ signal = "none"
        /\ Len(recs) = (IF N - 1 < 10 THEN N - 1 ELSE 10)

C2_Witness ==
    /\ CalledPresent
    /\ CoIndexed
    /\ N > 11
    /\ Len(recs) = 10

(* C3: the returned rows are in non-increasing order of their score in the *)
(* similarity row of the query, equal scores in ascending column order;    *)
(* the row [1.0, 0.9, 0.2, 0.5] for "Alpha" yields Beta, Delta, Gamma.     *)
C3_RankOrder ==
    /\ (CalledPresent /\ signal = "none") =>
          LET row == cosine_sim.rows[LowestMatch]
          IN  \A k \in 1..(Len(recs) - 1) :
                  \/ row[recs[k]] > row[recs[k + 1]]
                  \/ row[recs[k]] = row[recs[k + 1]] /\ recs[k] < recs[k + 1]
    /\ (invoked /\ movies = ExampleTable /\ selected = "Alpha" /\ signal = "none"
            /\ cosine_sim.rows[1] = ExampleRow) =>
          [k \in 1..Len(recs) |-> movies.title[recs[k]]] = <<"Beta", "Delta", "Gamma">>

C3_Witness ==
    /\ CalledPresent
    /\ signal = "none"
    /\ \E k \in 1..(Len(recs) - 1) :
          LET row == cosine_sim.rows[LowestMatch]
          IN  row[recs[k]] = row[recs[k + 1]]

(* C4: "movie not found" is reported only when no row's title equals the   *)
(* input; whenever a row matches, also with duplicate titles, the ranking  *)
(* is the one of the similarity row of the lowest-index matching row.      *)
C4_ExactMatchFirstRow ==
    (invoked /\ ~movies.isNone /\ N > 0) =>
        /\ signal = "not_found" => Matches = {}
        /\ Matches # {} =>
              /\ signal # "not_found"
              /\ signal = "none" =>
                    LET row == cosine_sim.rows[LowestMatch]
                    IN  /\ Len(recs) = (IF Len(row) > 10 THEN 10
                                        ELSE IF Len(row) = 0 THEN 0 ELSE Len(row) - 1)
                        /\ \A q \in 1..Len(recs) : RankIn(row, recs[q]) = q + 1

C4_Witness ==
    /\ invoked
    /\ ~movies.isNone
    /\ Cardinality(Matches) > 1
    /\ signal = "none"
    /\ recs # <<>>
    /\ \E i \in Matches :
          /\ i <= Len(cosine_sim.rows)
          /\ cosine_sim.rows[i] # cosine_sim.rows[LowestMatch]

(* C5: when the similarity row read at query time is shorter or longer     *)
(* than the number of movies, the call ends in an explicit failure and     *)
(* returns no rows.                                                        *)
C5_MismatchFails ==
    (CalledPresent /\ ~cosine_sim.isNone /\ LowestMatch <= Len(cosine_sim.rows)
        /\ Len(cosine_sim.rows[LowestMatch]) # N) =>
        /\ signal = "error"
        /\ recs = <<>>

(* C6: whenever load_movie_data reports success, the returned table is     *)
(* non-empty and the returned matrix has as many rows as the table.        *)
C6_LoadedShape ==
    data_loaded =>
        /\ ~movies.isNone
        /\ N > 0
        /\ ~cosine_sim.isNone
        /\ Len(cosine_sim.rows) = N

(* C7: each of the three failure causes of load_movie_data (file missing;  *)
(* unreadable or not two objects; table empty) is reported as a kind of    *)
(* its own, and every failure returns no table and no matrix.              *)
C7_FailureKinds ==
    (pc \in {"loaded", "halted", "done"} /\ ~data_loaded) =>
        /\ movies.isNone
        /\ cosine_sim.isNone
        /\ loadMsg = "file_not_found" <=> file.kind = "missing"
        /\ loadMsg = "error_loading" <=>
              file.kind \in {"unreadable", "undeserializable", "not_two_objects"}
        /\ loadMsg = "empty_or_corrupted" <=>
              (file.kind = "bundle" /\ (file.movies.isNone \/ Len(file.movies.title) = 0))

C7_Witness ==
    /\ pc = "halted"
    /\ ~data_loaded
    /\ file.kind = "missing"
    /\ loadMsg = "file_not_found"

(* C8: called with an empty or null movie table, or with a null matrix,    *)
(* get_recommendations returns no rows and emits the "no data" signal.     *)
C8_NoDataSignal ==
    (invoked /\ (movies.isNone \/ N = 0 \/ cosine_sim.isNone)) =>
        /\ recs = <<>>
        /\ signal = "no_data"

(* C9: in a run of main in which load_movie_data failed, the run halts:    *)
(* get_recommendations is not invoked and neither a table nor a matrix is  *)
(* available.                                                              *)
C9_LoadFailureHalts ==
    (pc \in {"loaded", "halted", "done"} /\ ~data_loaded) =>
        /\ pc # "done"
        /\ ~invoked
        /\ movies.isNone
        /\ cosine_sim.isNone

C9_Witness ==
    /\ pc = "halted"
    /\ ~data_loaded
    /\ loadCache.filled

(* C10: no call, whatever its outcome, changes the table or the matrix,    *)
(* and a query for a present title returns what it returns as the first    *)
(* query on that table and matrix.                                         *)
C10_QueriesLeaveState ==
    [][ /\ movies' = movies
        /\ cosine_sim' = cosine_sim
        /\ (invoked' /\ ~movies.isNone /\ matching_movies(selected', movies) # {}) =>
              /\ recs' = get_recommendations_body(selected', movies, cosine_sim).recs
              /\ signal' = get_recommendations_body(selected', movies, cosine_sim).signal
      ]_vars

C10_Witness ==
    /\ CalledPresent
    /\ signal = "none"
    /\ recs # <<>>
    /\ Cardinality(recCache) = 3
    /\ \E e \in recCache : e.value.signal = "not_found"

====
